---- MODULE Spec2Model ----
(***************************************************************************)
(* Resume analysis pipeline of recruitment/scoring.py: integrity gate,     *)
(* context classifier, extractors and scorer, acting on the records of one *)
(* candidate (recruitment/models.py).                                      *)
(*                                                                         *)
(* A resume text is a sequence of phrases of a fixed alphabet, each phrase *)
(* followed by one space.  For every phrase the table Tok gives its width  *)
(* in characters, its whitespace-separated words and the places where the  *)
(* lexicon strings and the regular expressions of scoring.py match inside  *)
(* it; character positions in a text are sums of widths, so the windows of *)
(* 50, 100 and 300 characters are the windows of the code.  No lexicon     *)
(* string or pattern matches across a phrase boundary of this alphabet.    *)
(* Scores are integers as in the code; total_score is kept in hundredths.  *)
(***************************************************************************)
EXTENDS Integers, Sequences, FiniteSets, TLC

\* ------------------------------------------------------------------------
\* Bounds of the model
\* ------------------------------------------------------------------------
\* phrases of a text over the whole alphabet, the filler not counted
MaxLen == 2
\* phrases of a text over the context alphabet, the filler not counted
MaxCtxLen == 4
\* number of analysis passes on the candidate
MaxPasses == 2
\* largest stored years of experience the scorer is applied to
MaxYears == 11
\* Education and Experience rows the scorer is applied to
MaxRows == 2
\* domain-specialty Skill rows the scorer is applied to
MaxSkills == 5
\* Skill rows of another category the scorer is applied to
MaxOther == 10

\* ------------------------------------------------------------------------
\* Lexicon tables (scoring.py)
\* ------------------------------------------------------------------------
ISLAMIC_FINANCE_KEYWORDS ==
  <<"sukuk", "mudarabah", "musharakah", "murabaha",
    "ijarah", "takaful", "sharia", "shariah",
    "islamic finance", "islamic banking", "halal investment", "riba",
    "zakat", "gharar", "maysir", "sharia compliant",
    "islamic investment", "islamic economics", "fiqh", "fatwa",
    "aaoifi", "cife", "cibafi">>

ISLAMIC_FINANCE_CERTS ==
  <<"cife", "aaoifi", "cibafi", "cima islamic finance",
    "islamic finance qualification", "cifp", "csaa">>

NEGATIVE_INDICATORS ==
  <<"no ", "not ", "never ", "without ",
    "lack of ", "lacking ", "weak ", "poor ",
    "failed ", "unsuccessful ", "unable to ", "don't ",
    "doesn't ", "didn't ", "won't ", "cannot ",
    "beginner at ", "learning ", "studying ", "want to learn ",
    "interested in learning", "hoping to learn", "trying to learn", "need to learn",
    "should learn", "will learn", "basic understanding", "limited experience",
    "minimal experience", "no experience">>

POSITIVE_SKILL_INDICATORS ==
  <<"proficient", "experienced", "expert", "skilled",
    "strong", "years of", "experience with", "experience in",
    "expertise in", "advanced", "fluent", "certified",
    "mastery", "specialist", "worked with", "used",
    "implemented", "developed using", "built with", "created using",
    "knowledge of", "familiar with", "competent", "capable",
    "successful", "accomplished", "proficiency in", "skilled in",
    "background in", "specialized in", "hands-on", "practical experience",
    "demonstrated ability">>

skill_section_indicators ==
  <<"skills:", "technical skills:", "core competencies:", "tools:",
    "technologies:", "expertise:", "proficiencies:", "technical expertise:",
    "core skills:", "competencies:", "skills include:", "proficient in:",
    "experienced in:", "areas of expertise:">>

experience_indicators ==
  <<"worked as", "role as", "position as", "served as",
    "employed as", "current", "previous", "years as",
    "experience as", "working as", "worked at">>

job_titles ==
  <<"investment analyst", "portfolio manager", "financial analyst", "investment manager",
    "fund manager", "asset manager", "relationship manager", "investment advisor",
    "senior analyst">>

financial_skills ==
  <<"financial modeling", "valuation", "portfolio management", "risk management",
    "excel", "bloomberg", "financial analysis", "investment analysis",
    "equity research", "fixed income", "derivatives", "asset allocation",
    "due diligence">>

islamic_skills ==
  <<"sukuk structuring", "sharia compliance", "islamic banking", "takaful",
    "mudarabah", "musharakah", "murabaha", "islamic finance",
    "halal investment">>

technical_skills ==
  <<"python", "sql", "tableau", "power bi",
    "r programming", "vba", "excel", "bloomberg terminal",
    "java", "javascript", "c++", "c#",
    "ruby", "php", "swift", "kotlin">>

all_skills ==
  <<"python", "sql", "excel", "java",
    "javascript", "c++", "financial modeling", "portfolio management",
    "valuation", "sukuk", "islamic finance", "sharia",
    "mudarabah">>

\* ------------------------------------------------------------------------
\* The phrase alphabet.  w: characters including the trailing space;
\* nw: words of text.split(); freq: words longer than 3 characters with
\* their count; sub: the lexicon strings that are substrings of the phrase;
\* occ: every place text[start:end] = s, s a negative or positive indicator,
\* a section header or an experience indicator;
\* wm: every match of \bp\b, p a skill, keyword or job title, in order;
\* deg: matches of the degree patterns; yrs: matches of the years pattern.
\* ------------------------------------------------------------------------
\* "python " (7 characters, 1 words)
TokPython ==
  [w |-> 7, nw |-> 1,
   freq |-> {<<"python", 1>>},
   sub |-> {"python"},
   occ |-> {},
   wm |-> <<[p |-> "python", start |-> 0, end |-> 6]>>,
   deg |-> <<>>,
   yrs |-> <<>>]

\* "excel " (6 characters, 1 words)
TokExcel ==
  [w |-> 6, nw |-> 1,
   freq |-> {<<"excel", 1>>},
   sub |-> {"excel"},
   occ |-> {},
   wm |-> <<[p |-> "excel", start |-> 0, end |-> 5]>>,
   deg |-> <<>>,
   yrs |-> <<>>]

\* "takaful " (8 characters, 1 words)
TokTakaful ==
  [w |-> 8, nw |-> 1,
   freq |-> {<<"takaful", 1>>},
   sub |-> {"takaful"},
   occ |-> {},
   wm |-> <<[p |-> "takaful", start |-> 0, end |-> 7]>>,
   deg |-> <<>>,
   yrs |-> <<>>]

\* "cife " (5 characters, 1 words)
TokCife ==
  [w |-> 5, nw |-> 1,
   freq |-> {<<"cife", 1>>},
   sub |-> {"cife"},
   occ |-> {},
   wm |-> <<[p |-> "cife", start |-> 0, end |-> 4]>>,
   deg |-> <<>>,
   yrs |-> <<>>]

\* "not " (4 characters, 1 words)
TokNot ==
  [w |-> 4, nw |-> 1,
   freq |-> {},
   sub |-> {"not "},
   occ |-> {[s |-> "not ", start |-> 0, end |-> 4]},
   wm |-> <<>>,
   deg |-> <<>>,
   yrs |-> <<>>]

\* "expert " (7 characters, 1 words)
TokExpert ==
  [w |-> 7, nw |-> 1,
   freq |-> {<<"expert", 1>>},
   sub |-> {"expert"},
   occ |-> {[s |-> "expert", start |-> 0, end |-> 6]},
   wm |-> <<>>,
   deg |-> <<>>,
   yrs |-> <<>>]

\* "skills: " (8 characters, 1 words)
TokSkills ==
  [w |-> 8, nw |-> 1,
   freq |-> {<<"skills:", 1>>},
   sub |-> {"skills:"},
   occ |-> {[s |-> "skills:", start |-> 0, end |-> 7]},
   wm |-> <<>>,
   deg |-> <<>>,
   yrs |-> <<>>]

\* "phd in law, " (12 characters, 3 words)
TokPhd ==
  [w |-> 12, nw |-> 3,
   freq |-> {<<"law,", 1>>},
   sub |-> {},
   occ |-> {},
   wm |-> <<>>,
   deg |-> <<[pat |-> 1, degree_type |-> "phd", field |-> "law", start |-> 0, end |-> 10]>>,
   yrs |-> <<>>]

\* "m.sc in law, " (13 characters, 3 words)
TokMsc ==
  [w |-> 13, nw |-> 3,
   freq |-> {<<"law,", 1>>, <<"m.sc", 1>>},
   sub |-> {},
   occ |-> {},
   wm |-> <<>>,
   deg |-> <<[pat |-> 2, degree_type |-> "m.sc", field |-> "law", start |-> 0, end |-> 11]>>,
   yrs |-> <<>>]

\* "7 years experience " (19 characters, 3 words)
TokYrs7 ==
  [w |-> 19, nw |-> 3,
   freq |-> {<<"experience", 1>>, <<"years", 1>>},
   sub |-> {},
   occ |-> {},
   wm |-> <<>>,
   deg |-> <<>>,
   yrs |-> <<[years |-> 7, start |-> 0, end |-> 18]>>]

\* "150 years experience " (21 characters, 3 words)
TokYrs150 ==
  [w |-> 21, nw |-> 3,
   freq |-> {<<"experience", 1>>, <<"years", 1>>},
   sub |-> {},
   occ |-> {},
   wm |-> <<>>,
   deg |-> <<>>,
   yrs |-> <<[years |-> 150, start |-> 0, end |-> 20]>>]

\* "fund manager " (13 characters, 2 words)
TokFundMgr ==
  [w |-> 13, nw |-> 2,
   freq |-> {<<"fund", 1>>, <<"manager", 1>>},
   sub |-> {"fund manager"},
   occ |-> {},
   wm |-> <<[p |-> "fund manager", start |-> 0, end |-> 12]>>,
   deg |-> <<>>,
   yrs |-> <<>>]

\* "worked as " (10 characters, 2 words)
TokWorkedAs ==
  [w |-> 10, nw |-> 2,
   freq |-> {<<"worked", 1>>},
   sub |-> {"worked as"},
   occ |-> {[s |-> "worked as", start |-> 0, end |-> 9]},
   wm |-> <<>>,
   deg |-> <<>>,
   yrs |-> <<>>]

\* "investment analyst " (19 characters, 2 words)
TokAnalyst ==
  [w |-> 19, nw |-> 2,
   freq |-> {<<"analyst", 1>>, <<"investment", 1>>},
   sub |-> {"investment analyst"},
   occ |-> {},
   wm |-> <<[p |-> "investment analyst", start |-> 0, end |-> 18]>>,
   deg |-> <<>>,
   yrs |-> <<>>]

\* "00001, 00002, 00003, 00004, 00005, ... " (105 characters, 15 words)
TokPad ==
  [w |-> 105, nw |-> 15,
   freq |-> {<<"00001,", 1>>, <<"00002,", 1>>, <<"00003,", 1>>, <<"00004,", 1>>, <<"00005,", 1>>, <<"00006,", 1>>, <<"00007,", 1>>, <<"00008,", 1>>, <<"00009,", 1>>, <<"00010,", 1>>, <<"00011,", 1>>, <<"00012,", 1>>, <<"00013,", 1>>, <<"00014,", 1>>, <<"00015,", 1>>},
   sub |-> {},
   occ |-> {},
   wm |-> <<>>,
   deg |-> <<>>,
   yrs |-> <<>>]

\* "python sql excel python sql excel  ... " (204 characters, 36 words)
TokStuff ==
  [w |-> 204, nw |-> 36,
   freq |-> {<<"excel", 12>>, <<"python", 12>>},
   sub |-> {"excel", "python", "sql"},
   occ |-> {},
   wm |-> <<[p |-> "python", start |-> 0, end |-> 6], [p |-> "sql", start |-> 7, end |-> 10], [p |-> "excel", start |-> 11, end |-> 16], [p |-> "python", start |-> 17, end |-> 23], [p |-> "sql", start |-> 24, end |-> 27], [p |-> "excel", start |-> 28, end |-> 33], [p |-> "python", start |-> 34, end |-> 40], [p |-> "sql", start |-> 41, end |-> 44], [p |-> "excel", start |-> 45, end |-> 50], [p |-> "python", start |-> 51, end |-> 57], [p |-> "sql", start |-> 58, end |-> 61], [p |-> "excel", start |-> 62, end |-> 67], [p |-> "python", start |-> 68, end |-> 74], [p |-> "sql", start |-> 75, end |-> 78], [p |-> "excel", start |-> 79, end |-> 84], [p |-> "python", start |-> 85, end |-> 91], [p |-> "sql", start |-> 92, end |-> 95], [p |-> "excel", start |-> 96, end |-> 101], [p |-> "python", start |-> 102, end |-> 108], [p |-> "sql", start |-> 109, end |-> 112], [p |-> "excel", start |-> 113, end |-> 118], [p |-> "python", start |-> 119, end |-> 125], [p |-> "sql", start |-> 126, end |-> 129], [p |-> "excel", start |-> 130, end |-> 135], [p |-> "python", start |-> 136, end |-> 142], [p |-> "sql", start |-> 143, end |-> 146], [p |-> "excel", start |-> 147, end |-> 152], [p |-> "python", start |-> 153, end |-> 159], [p |-> "sql", start |-> 160, end |-> 163], [p |-> "excel", start |-> 164, end |-> 169], [p |-> "python", start |-> 170, end |-> 176], [p |-> "sql", start |-> 177, end |-> 180], [p |-> "excel", start |-> 181, end |-> 186], [p |-> "python", start |-> 187, end |-> 193], [p |-> "sql", start |-> 194, end |-> 197], [p |-> "excel", start |-> 198, end |-> 203]>>,
   deg |-> <<>>,
   yrs |-> <<>>]

\* "expert in sukuk, mudarabah, mushar ... " (66 characters, 8 words)
TokKeywords ==
  [w |-> 66, nw |-> 8,
   freq |-> {<<"expert", 1>>, <<"ijarah,", 1>>, <<"mudarabah,", 1>>, <<"murabaha,", 1>>, <<"musharakah,", 1>>, <<"sukuk,", 1>>, <<"takaful", 1>>},
   sub |-> {"expert", "ijarah", "mudarabah", "murabaha", "musharakah", "sukuk", "takaful"},
   occ |-> {[s |-> "expert", start |-> 0, end |-> 6]},
   wm |-> <<[p |-> "sukuk", start |-> 10, end |-> 15], [p |-> "mudarabah", start |-> 17, end |-> 26], [p |-> "musharakah", start |-> 28, end |-> 38], [p |-> "murabaha", start |-> 40, end |-> 48], [p |-> "ijarah", start |-> 50, end |-> 56], [p |-> "takaful", start |-> 58, end |-> 65]>>,
   deg |-> <<>>,
   yrs |-> <<>>]

\* the text of test_perfect_candidate, lower-cased (479 characters, 49 words)
TokPerfect ==
  [w |-> 479, nw |-> 49,
   freq |-> {<<"(2018-present)", 1>>, <<"2020", 1>>, <<"ahmad", 1>>, <<"bahrain,", 1>>, <<"bank", 1>>, <<"bloomberg,", 1>>, <<"certified", 1>>, <<"cife", 1>>, <<"education", 1>>, <<"excel", 1>>, <<"experience", 1>>, <<"expert", 2>>, <<"finance", 2>>, <<"financial", 1>>, <<"investment", 1>>, <<"islamic", 3>>, <<"manager", 2>>, <<"managing", 1>>, <<"modeling,", 1>>, <<"portfolio", 2>>, <<"portfolios", 1>>, <<"professional", 1>>, <<"proficient", 1>>, <<"python,", 1>>, <<"sarah", 1>>, <<"senior", 1>>, <<"skills", 1>>, <<"sql,", 1>>, <<"structuring", 1>>, <<"sukuk", 2>>, <<"university", 1>>, <<"years", 1>>},
   sub |-> {"bloomberg", "certified", "cife", "excel", "expert", "financial modeling", "islamic finance", "portfolio manager", "proficient in:", "proficient", "python", "sql", "sukuk structuring", "sukuk"},
   occ |-> {[s |-> "certified", start |-> 153, end |-> 162], [s |-> "expert", start |-> 179, end |-> 185], [s |-> "expert", start |-> 429, end |-> 435], [s |-> "proficient", start |-> 369, end |-> 379], [s |-> "proficient in:", start |-> 369, end |-> 383]},
   wm |-> <<[p |-> "portfolio manager", start |-> 34, end |-> 51], [p |-> "islamic finance", start |-> 94, end |-> 109], [p |-> "cife", start |-> 148, end |-> 152], [p |-> "islamic finance", start |-> 163, end |-> 178], [p |-> "portfolio manager", start |-> 242, end |-> 259], [p |-> "sukuk", start |-> 320, end |-> 325], [p |-> "financial modeling", start |-> 384, end |-> 402], [p |-> "bloomberg", start |-> 404, end |-> 413], [p |-> "excel", start |-> 415, end |-> 420], [p |-> "python", start |-> 440, end |-> 446], [p |-> "sql", start |-> 448, end |-> 451], [p |-> "sukuk", start |-> 453, end |-> 458], [p |-> "sukuk structuring", start |-> 453, end |-> 470]>>,
   deg |-> <<[pat |-> 1, degree_type |-> "phd", field |-> "islamic finance", start |-> 87, end |-> 110]>>,
   yrs |-> <<>>]

\* the text of test_junior_candidate, lower-cased (235 characters, 25 words)
TokJunior ==
  [w |-> 235, nw |-> 25,
   freq |-> {<<"(2023)", 1>>, <<"2024", 1>>, <<"assisting", 1>>, <<"bachelor", 1>>, <<"basic", 1>>, <<"corp", 1>>, <<"economics", 1>>, <<"excel,", 1>>, <<"finance", 1>>, <<"garcia", 1>>, <<"graduate", 1>>, <<"intern", 1>>, <<"learning", 1>>, <<"maria", 1>>, <<"months", 1>>, <<"python", 1>>, <<"recent", 1>>, <<"research", 1>>, <<"summer", 1>>, <<"with", 1>>},
   sub |-> {"excel", "learning ", "python"},
   occ |-> {[s |-> "learning ", start |-> 211, end |-> 220]},
   wm |-> <<[p |-> "excel", start |-> 204, end |-> 209], [p |-> "python", start |-> 220, end |-> 226]>>,
   deg |-> <<[pat |-> 3, degree_type |-> "bachelor", field |-> "economics", start |-> 57, end |-> 79]>>,
   yrs |-> <<>>]

\* the text of test_ambiguous_mentions, lower-cased (146 characters, 15 words)
TokAmbiguous ==
  [w |-> 146, nw |-> 15,
   freq |-> {<<"about", 1>>, <<"course", 1>>, <<"covered", 1>>, <<"databases.", 1>>, <<"during", 1>>, <<"excel", 1>>, <<"learned", 1>>, <<"manager", 1>>, <<"modeling.", 1>>, <<"programming.", 1>>, <<"python", 1>>, <<"studies,", 1>>, <<"used", 1>>},
   sub |-> {"excel", "python", "sql", "used"},
   occ |-> {[s |-> "used", start |-> 113, end |-> 117]},
   wm |-> <<[p |-> "sql", start |-> 39, end |-> 42], [p |-> "python", start |-> 77, end |-> 83], [p |-> "excel", start |-> 118, end |-> 123]>>,
   deg |-> <<>>,
   yrs |-> <<>>]

Tok ==
  [python |-> TokPython,
   excel |-> TokExcel,
   takaful |-> TokTakaful,
   cife |-> TokCife,
   not |-> TokNot,
   expert |-> TokExpert,
   skills |-> TokSkills,
   phd |-> TokPhd,
   msc |-> TokMsc,
   yrs7 |-> TokYrs7,
   yrs150 |-> TokYrs150,
   fundmgr |-> TokFundMgr,
   workedas |-> TokWorkedAs,
   analyst |-> TokAnalyst,
   pad |-> TokPad,
   stuff |-> TokStuff,
   keywords |-> TokKeywords,
   perfect |-> TokPerfect,
   junior |-> TokJunior,
   ambiguous |-> TokAmbiguous]

\* the phrases but the filler and the whole texts
\* the texts of recruitment/tests.py that are kept whole
Scenarios == {"perfect", "junior", "ambiguous"}

\* the texts that are one phrase: the scenarios and a list of domain keywords
WholeTexts == Scenarios \cup {"keywords"}

Alphabet == DOMAIN Tok \ ({"pad", "analyst"} \cup WholeTexts)

\* phrases of the classifier: a skill, a negative and a positive indicator
\* and a section header
CtxAlphabet == {"python", "not", "expert", "skills"}

\* ------------------------------------------------------------------------
\* Strings and slices
\* ------------------------------------------------------------------------
Max(a, b) == IF a >= b THEN a ELSE b

Min(a, b) == IF a <= b THEN a ELSE b

Range(s) == {s[i] : i \in DOMAIN s}

RECURSIVE BoundedSeq(_, _)
BoundedSeq(S, n) ==
  IF n = 0 THEN {<<>>}
  ELSE LET shorter == BoundedSeq(S, n - 1)
       IN shorter \cup {Append(t, x) : t \in {u \in shorter : Len(u) = n - 1}, x \in S}

\* character position at which phrase i of the phrase sequence starts
RECURSIVE TokPos(_, _)
TokPos(toks, i) == IF i <= 1 THEN 0 ELSE TokPos(toks, i - 1) + Tok[toks[i - 1]].w

\* the entries of field f of the phrases from phrase i on, in text order,
\* their start and end moved to positions in the text
RECURSIVE Shifted(_, _, _)
Shifted(toks, f, i) ==
  IF i > Len(toks) THEN <<>>
  ELSE LET here == Tok[toks[i]][f]
           pos == TokPos(toks, i)
       IN [k \in 1..Len(here) |-> [here[k] EXCEPT !.start = @ + pos, !.end = @ + pos]]
          \o Shifted(toks, f, i + 1)

\* len(text)
TextLen(toks) == TokPos(toks, Len(toks) + 1)

\* a text: the phrase sequence with len(text), the lexicon strings that occur
\* in it and the places where the indicators and the patterns match
Scan(toks) ==
  [toks |-> toks,
   len |-> TextLen(toks),
   sub |-> UNION {Tok[toks[i]].sub : i \in DOMAIN toks},
   occ |-> UNION {{[s |-> o.s, start |-> TokPos(toks, i) + o.start, end |-> TokPos(toks, i) + o.end]
                    : o \in Tok[toks[i]].occ} : i \in DOMAIN toks},
   wm |-> Shifted(toks, "wm", 1),
   deg |-> Shifted(toks, "deg", 1),
   yrs |-> Shifted(toks, "yrs", 1)]

\* any(s in text[a:b] for s in lex), lex a list of indicators
AnyIn(lex, text, a, b) ==
  \E o \in text.occ : a <= o.start /\ o.end <= b /\ \E k \in DOMAIN lex : lex[k] = o.s

\* s in text
In(s, text) == s \in text.sub

\* text[a:b].rfind(s), given that s occurs in text[a:b]
RFind(s, text, a, b) ==
  LET starts == {o.start - a : o \in {x \in text.occ : x.s = s /\ a <= x.start /\ x.end <= b}}
  IN CHOOSE p \in starts : \A r \in starts : r <= p

\* re.finditer(r'\b' + re.escape(p) + r'\b', text)
finditer(p, text) == SelectSeq(text.wm, LAMBDA m : m.p = p)

\* str.upper() of a degree token
Upper(s) ==
  CASE s = "phd" -> "PHD"
    [] s = "doctorate" -> "DOCTORATE"
    [] s = "ph.d" -> "PH.D"
    [] s = "ph.d." -> "PH.D."
    [] s = "master" -> "MASTER"
    [] s = "mba" -> "MBA"
    [] s = "m.sc" -> "M.SC"
    [] s = "m.s" -> "M.S"
    [] s = "m.s." -> "M.S."
    [] s = "ma" -> "MA"
    [] s = "m.a" -> "M.A"
    [] s = "m.a." -> "M.A."
    [] s = "bachelor" -> "BACHELOR"
    [] s = "b.sc" -> "B.SC"
    [] s = "b.s" -> "B.S"
    [] s = "b.s." -> "B.S."
    [] s = "ba" -> "BA"
    [] s = "b.a" -> "B.A"
    [] s = "b.a." -> "B.A."
    [] s = "bba" -> "BBA"
    [] s = "diploma" -> "DIPLOMA"

\* str.lower() of a stored degree
Lower(s) ==
  CASE s = "PHD" -> "phd"
    [] s = "DOCTORATE" -> "doctorate"
    [] s = "PH.D" -> "ph.d"
    [] s = "PH.D." -> "ph.d."
    [] s = "MASTER" -> "master"
    [] s = "MBA" -> "mba"
    [] s = "M.SC" -> "m.sc"
    [] s = "M.S" -> "m.s"
    [] s = "M.S." -> "m.s."
    [] s = "MA" -> "ma"
    [] s = "M.A" -> "m.a"
    [] s = "M.A." -> "m.a."
    [] s = "BACHELOR" -> "bachelor"
    [] s = "B.SC" -> "b.sc"
    [] s = "B.S" -> "b.s"
    [] s = "B.S." -> "b.s."
    [] s = "BA" -> "ba"
    [] s = "B.A" -> "b.a"
    [] s = "B.A." -> "b.a."
    [] s = "BBA" -> "bba"
    [] s = "DIPLOMA" -> "diploma"
    [] s = "Not specified" -> "not specified"

\* the tokens the degree patterns of extract_education capture as group 1
DegreeTokens ==
  {"phd", "doctorate", "ph.d", "ph.d.", "master", "mba", "m.sc", "m.s", "m.s.",
   "ma", "m.a", "m.a.", "bachelor", "b.sc", "b.s", "b.s.", "ba", "b.a", "b.a.", "bba", "diploma"}

\* a string as the sequence of its characters
Letters(s) ==
  CASE s = "phd" -> <<"p", "h", "d">>
    [] s = "doctorate" -> <<"d", "o", "c", "t", "o", "r", "a", "t", "e">>
    [] s = "ph.d" -> <<"p", "h", ".", "d">>
    [] s = "ph.d." -> <<"p", "h", ".", "d", ".">>
    [] s = "master" -> <<"m", "a", "s", "t", "e", "r">>
    [] s = "mba" -> <<"m", "b", "a">>
    [] s = "m.sc" -> <<"m", ".", "s", "c">>
    [] s = "m.s" -> <<"m", ".", "s">>
    [] s = "m.s." -> <<"m", ".", "s", ".">>
    [] s = "ma" -> <<"m", "a">>
    [] s = "m.a" -> <<"m", ".", "a">>
    [] s = "m.a." -> <<"m", ".", "a", ".">>
    [] s = "bachelor" -> <<"b", "a", "c", "h", "e", "l", "o", "r">>
    [] s = "b.sc" -> <<"b", ".", "s", "c">>
    [] s = "b.s" -> <<"b", ".", "s">>
    [] s = "b.s." -> <<"b", ".", "s", ".">>
    [] s = "ba" -> <<"b", "a">>
    [] s = "b.a" -> <<"b", ".", "a">>
    [] s = "b.a." -> <<"b", ".", "a", ".">>
    [] s = "bba" -> <<"b", "b", "a">>
    [] s = "diploma" -> <<"d", "i", "p", "l", "o", "m", "a">>
    [] s = "high school" -> <<"h", "i", "g", "h", " ", "s", "c", "h", "o", "o", "l">>
    [] s = "not specified" -> <<"n", "o", "t", " ", "s", "p", "e", "c", "i", "f", "i", "e", "d">>

\* a in b: a is a run of consecutive characters of b
Contains(b, a) ==
  \E i \in 0..(Len(b) - Len(a)) : SubSeq(b, i + 1, i + Len(a)) = a

\* str.title() of a field, skill or job title
Title(s) ==
  CASE s = "law" -> "Law"
    [] s = "python" -> "Python"
    [] s = "sql" -> "Sql"
    [] s = "excel" -> "Excel"
    [] s = "takaful" -> "Takaful"
    [] s = "cife" -> "Cife"
    [] s = "fund manager" -> "Fund Manager"
    [] s = "investment analyst" -> "Investment Analyst"
    [] s = "portfolio manager" -> "Portfolio Manager"
    [] s = "islamic finance" -> "Islamic Finance"
    [] s = "economics" -> "Economics"
    [] s = "financial modeling" -> "Financial Modeling"
    [] s = "bloomberg" -> "Bloomberg"
    [] s = "sukuk structuring" -> "Sukuk Structuring"
    [] s = "sukuk" -> "Sukuk"
    [] s = "mudarabah" -> "Mudarabah"
    [] s = "musharakah" -> "Musharakah"
    [] s = "murabaha" -> "Murabaha"
    [] s = "ijarah" -> "Ijarah"

\* ------------------------------------------------------------------------
\* IntegrityGuard: detect_keyword_stuffing
\* ------------------------------------------------------------------------
\* len(text.split())
RECURSIVE WordCount(_, _)
WordCount(toks, i) == IF i > Len(toks) THEN 0 ELSE Tok[toks[i]].nw + WordCount(toks, i + 1)

\* word_freq[word] after the loop over words; only words longer than 3 count
RECURSIVE WordFreq(_, _, _)
WordFreq(word, toks, i) ==
  IF i > Len(toks) THEN 0
  ELSE LET f == {x \in Tok[toks[i]].freq : x[1] = word}
       IN (IF f = {} THEN 0 ELSE (CHOOSE x \in f : TRUE)[2]) + WordFreq(word, toks, i + 1)

\* the keys of word_freq
LongWords(toks) == UNION {{x[1] : x \in Tok[toks[i]].freq} : i \in DOMAIN toks}

RepetitionRatio == 10

MinWords == 50

SkillDensity == 30

ShortDocument == 500

\* detect_keyword_stuffing with a density threshold the vocabulary can reach
detect_keyword_stuffing_Density5(text) ==
  LET word_count == WordCount(text.toks, 1)
      skill_count == Cardinality({k \in DOMAIN all_skills : In(all_skills[k], text)})
  IN IF word_count < MinWords THEN FALSE
     ELSE IF \E word \in LongWords(text.toks) : WordFreq(word, text.toks, 1) * RepetitionRatio > word_count THEN TRUE
     ELSE IF skill_count > 5 /\ word_count < ShortDocument THEN TRUE
     ELSE FALSE

detect_keyword_stuffing(text) ==
  LET word_count == WordCount(text.toks, 1)
      skill_count == Cardinality({k \in DOMAIN all_skills : In(all_skills[k], text)})
  IN IF word_count < MinWords THEN FALSE
     \* count / word_count > 0.10
     ELSE IF \E word \in LongWords(text.toks) : WordFreq(word, text.toks, 1) * RepetitionRatio > word_count THEN TRUE
     ELSE IF skill_count > SkillDensity /\ word_count < ShortDocument THEN TRUE
     ELSE FALSE

\* ------------------------------------------------------------------------
\* ContextClassifier: check_skill_context
\* ------------------------------------------------------------------------
ContextWindow == 100

HeaderWindow == 300

\* OccurrenceVerdict with the header and positive checks ahead of the
\* negative check
OccurrenceVerdict_HeaderFirst(text, match) ==
  LET start == Max(0, match.start - ContextWindow)
      end == Min(text.len, match.end + ContextWindow)
      large_context_start == Max(0, match.start - HeaderWindow)
      skill_pos == match.start - large_context_start
  IN IF \E h \in DOMAIN skill_section_indicators :
           LET section_header == skill_section_indicators[h]
           IN /\ AnyIn(<<section_header>>, text, large_context_start, end)
              /\ skill_pos > RFind(section_header, text, large_context_start, end)
     THEN "accept"
     ELSE IF AnyIn(POSITIVE_SKILL_INDICATORS, text, start, end) THEN "accept"
     ELSE IF AnyIn(NEGATIVE_INDICATORS, text, start, end) THEN "reject"
     ELSE "next"

\* one turn of the loop over the matches: "reject" is return False,
\* "accept" is return True, "next" goes on to the next match
OccurrenceVerdict(text, match) ==
  LET start == Max(0, match.start - ContextWindow)
      end == Min(text.len, match.end + ContextWindow)
      large_context_start == Max(0, match.start - HeaderWindow)
      skill_pos == match.start - large_context_start
  IN IF AnyIn(NEGATIVE_INDICATORS, text, start, end) THEN "reject"
     ELSE IF \E h \in DOMAIN skill_section_indicators :
                LET section_header == skill_section_indicators[h]
                IN /\ AnyIn(<<section_header>>, text, large_context_start, end)
                   /\ skill_pos > RFind(section_header, text, large_context_start, end)
          THEN "accept"
     ELSE IF AnyIn(POSITIVE_SKILL_INDICATORS, text, start, end) THEN "accept"
     ELSE "next"

RECURSIVE CheckMatches(_, _, _)
CheckMatches(text, matches, k) ==
  IF k > Len(matches) THEN FALSE
  ELSE LET verdict == OccurrenceVerdict(text, matches[k])
       IN IF verdict = "reject" THEN FALSE
          ELSE IF verdict = "accept" THEN TRUE
          ELSE CheckMatches(text, matches, k + 1)

check_skill_context(text, skill) == CheckMatches(text, finditer(skill, text), 1)

\* ------------------------------------------------------------------------
\* Extractor: extract_education, extract_experience, extract_skills
\* ------------------------------------------------------------------------
DegreeWindow == 50

YearsWindow == 50

TitleWindow == 100

\* re.finditer(degree_patterns[pat], text), pat = 1..4
DegreeMatches(pat, text) == SelectSeq(text.deg, LAMBDA m : m.pat = pat)

\* the matches in the order the two nested loops visit them
AllDegreeMatches(text) ==
  DegreeMatches(1, text) \o DegreeMatches(2, text)
    \o DegreeMatches(3, text) \o DegreeMatches(4, text)

\* the body of the loops: the rows created so far and added_degrees
RECURSIVE EducationLoop(_, _, _, _, _)
EducationLoop(text, matches, k, added_degrees, created) ==
  IF k > Len(matches) THEN created
  ELSE LET match == matches[k]
           \* the fields of the alphabet are shorter than 30 characters
           degree_key == <<match.degree_type, match.field>>
           context_start == Max(0, match.start - DegreeWindow)
           context_end == Min(text.len, match.end + DegreeWindow)
           has_if_cert == \E c \in DOMAIN ISLAMIC_FINANCE_CERTS : In(ISLAMIC_FINANCE_CERTS[c], text)
       IN IF degree_key \in added_degrees
          THEN EducationLoop(text, matches, k + 1, added_degrees, created)
          ELSE IF AnyIn(NEGATIVE_INDICATORS, text, context_start, context_end)
          THEN EducationLoop(text, matches, k + 1, added_degrees, created)
          ELSE EducationLoop(text, matches, k + 1, added_degrees \cup {degree_key},
                 Append(created, [degree |-> Upper(match.degree_type),
                                  field_of_study |-> Title(match.field),
                                  institution |-> "Extracted from resume",
                                  has_islamic_finance_cert |-> has_if_cert]))

NotSpecified ==
  [degree |-> "Not specified", field_of_study |-> "Not specified",
   institution |-> "Not specified", has_islamic_finance_cert |-> FALSE]

\* extract_education with found_degrees set by a match, created or not
extract_education_FoundOnMatch(rows, text) ==
  LET created == EducationLoop(text, AllDegreeMatches(text), 1, {}, <<>>)
      found_degrees == AllDegreeMatches(text) # <<>>
  IN IF found_degrees THEN rows \o created ELSE Append(rows, NotSpecified)

\* extract_education with the certification flag on the placeholder too
extract_education_CertPlaceholder(rows, text) ==
  LET created == EducationLoop(text, AllDegreeMatches(text), 1, {}, <<>>)
      found_degrees == created # <<>>
      has_if_cert == \E c \in DOMAIN ISLAMIC_FINANCE_CERTS : In(ISLAMIC_FINANCE_CERTS[c], text)
  IN IF found_degrees THEN rows \o created
     ELSE Append(rows, [NotSpecified EXCEPT !.has_islamic_finance_cert = has_if_cert])

\* the Education rows of the candidate after extract_education
extract_education(rows, text) ==
  LET created == EducationLoop(text, AllDegreeMatches(text), 1, {}, <<>>)
      found_degrees == created # <<>>
  IN IF found_degrees THEN rows \o created ELSE Append(rows, NotSpecified)

\* extract_years on the last match of the pattern
extract_years_LastMatch(years_experience, text) ==
  LET found == text.yrs
  IN IF found = <<>> THEN years_experience
     ELSE LET years_match == found[Len(found)]
              match_start == Max(0, years_match.start - YearsWindow)
              match_end == Min(text.len, years_match.end + YearsWindow)
              has_positive == AnyIn(POSITIVE_SKILL_INDICATORS, text, match_start, match_end)
              has_negative == AnyIn(NEGATIVE_INDICATORS, text, match_start, match_end)
          IN IF has_positive /\ ~has_negative THEN years_match.years
             ELSE IF ~has_negative THEN years_match.years
             ELSE years_experience

\* candidate.years_experience after the first part of extract_experience
extract_years(years_experience, text) ==
  \* re.search(years_pattern, text) is the first of text.yrs
  LET found == text.yrs
  IN IF found = <<>> THEN years_experience
     ELSE LET years_match == found[1]
              match_start == Max(0, years_match.start - YearsWindow)
              match_end == Min(text.len, years_match.end + YearsWindow)
              has_positive == AnyIn(POSITIVE_SKILL_INDICATORS, text, match_start, match_end)
              has_negative == AnyIn(NEGATIVE_INDICATORS, text, match_start, match_end)
          IN IF has_positive /\ ~has_negative THEN years_match.years
             ELSE IF ~has_negative THEN years_match.years
             ELSE years_experience

is_islamic_finance(text) ==
  \E k \in DOMAIN ISLAMIC_FINANCE_KEYWORDS :
     In(ISLAMIC_FINANCE_KEYWORDS[k], text) /\ check_skill_context(text, ISLAMIC_FINANCE_KEYWORDS[k])

\* the loop over job_titles without the break
RECURSIVE TitleLoop_NoBreak(_, _, _)
TitleLoop_NoBreak(rows, text, k) ==
  IF k > Len(job_titles) THEN rows
  ELSE LET title == job_titles[k]
           found == finditer(title, text)
       IN IF ~In(title, text) \/ found = <<>> THEN TitleLoop_NoBreak(rows, text, k + 1)
          ELSE LET match == found[1]
                   start == Max(0, match.start - TitleWindow)
                   end == Min(text.len, match.end + TitleWindow)
                   has_exp_indicator == AnyIn(experience_indicators, text, start, end)
                   has_negative == AnyIn(NEGATIVE_INDICATORS, text, start, end)
               IN IF has_exp_indicator /\ ~has_negative
                  THEN TitleLoop_NoBreak(
                         Append(rows, [company |-> "Extracted from resume",
                                       position |-> Title(title),
                                       is_islamic_finance |-> is_islamic_finance(text)]),
                         text, k + 1)
                  ELSE TitleLoop_NoBreak(rows, text, k + 1)

\* the loop over job_titles from title k on; it breaks at the first row created
RECURSIVE TitleLoop(_, _, _)
TitleLoop(rows, text, k) ==
  IF k > Len(job_titles) THEN rows
  ELSE LET title == job_titles[k]
           found == finditer(title, text)
       IN IF ~In(title, text) \/ found = <<>> THEN TitleLoop(rows, text, k + 1)
          ELSE LET match == found[1]
                   start == Max(0, match.start - TitleWindow)
                   end == Min(text.len, match.end + TitleWindow)
                   has_exp_indicator == AnyIn(experience_indicators, text, start, end)
                   has_negative == AnyIn(NEGATIVE_INDICATORS, text, start, end)
               IN IF has_exp_indicator /\ ~has_negative
                  THEN Append(rows, [company |-> "Extracted from resume",
                                     position |-> Title(title),
                                     is_islamic_finance |-> is_islamic_finance(text)])
                  ELSE TitleLoop(rows, text, k + 1)

\* the Experience rows of the candidate after extract_experience
extract_experience(rows, text) == TitleLoop(rows, text, 1)

\* one of the three loops of extract_skills, from entry k of the vocabulary on
RECURSIVE SkillLoop(_, _, _, _, _, _)
SkillLoop(rows, text, vocabulary, category, proficiency, k) ==
  IF k > Len(vocabulary) THEN rows
  ELSE LET skill == vocabulary[k]
       IN IF In(skill, text) /\ check_skill_context(text, skill)
          THEN SkillLoop(Append(rows, [skill_name |-> Title(skill), category |-> category,
                                       proficiency_level |-> proficiency]),
                         text, vocabulary, category, proficiency, k + 1)
          ELSE SkillLoop(rows, text, vocabulary, category, proficiency, k + 1)

\* extract_skills that replaces the Skill rows of the candidate
extract_skills_Replace(rows, text) ==
  LET finance == SkillLoop(<<>>, text, financial_skills, "finance", "intermediate", 1)
      islamic == SkillLoop(finance, text, islamic_skills, "islamic_finance", "advanced", 1)
  IN SkillLoop(islamic, text, technical_skills, "technical", "intermediate", 1)

\* the Skill rows of the candidate after extract_skills
extract_skills(rows, text) ==
  LET finance == SkillLoop(rows, text, financial_skills, "finance", "intermediate", 1)
      islamic == SkillLoop(finance, text, islamic_skills, "islamic_finance", "advanced", 1)
  IN SkillLoop(islamic, text, technical_skills, "technical", "intermediate", 1)

\* ------------------------------------------------------------------------
\* Scorer
\* ------------------------------------------------------------------------
DEGREE_SCORES ==
  <<<<"phd", 100>>, <<"doctorate", 100>>, <<"master", 85>>, <<"mba", 85>>,
    <<"bachelor", 70>>, <<"diploma", 50>>, <<"high school", 30>>>>

\* degree_type in degree_lower, or the other way round
KeyIn_EitherWay(degree_type, degree_lower) ==
  \/ Contains(Letters(degree_lower), Letters(degree_type))
  \/ Contains(Letters(degree_type), Letters(degree_lower))

\* degree_type in degree_lower
KeyIn(degree_type, degree_lower) == Contains(Letters(degree_lower), Letters(degree_type))

\* the inner loop over DEGREE_SCORES from entry k on
RECURSIVE DegreeLoop(_, _, _)
DegreeLoop(degree_lower, highest_score, k) ==
  IF k > Len(DEGREE_SCORES) THEN highest_score
  ELSE IF KeyIn(DEGREE_SCORES[k][1], degree_lower)
       THEN DegreeLoop(degree_lower, Max(highest_score, DEGREE_SCORES[k][2]), k + 1)
       ELSE DegreeLoop(degree_lower, highest_score, k + 1)

CertBonus == 20

\* EducationStep with the bonus added without the cap at 100
EducationStep_NoCap(edu, highest_score) ==
  LET best == DegreeLoop(Lower(edu.degree), highest_score, 1)
  IN IF edu.has_islamic_finance_cert THEN best + CertBonus ELSE best

\* the body of the loop over educations: highest_score after row edu
EducationStep(edu, highest_score) ==
  LET best == DegreeLoop(Lower(edu.degree), highest_score, 1)
  IN IF edu.has_islamic_finance_cert THEN Min(100, best + CertBonus) ELSE best

RECURSIVE EducationScoreLoop(_, _, _)
EducationScoreLoop(educations, highest_score, k) ==
  IF k > Len(educations) THEN highest_score
  ELSE EducationScoreLoop(educations, EducationStep(educations[k], highest_score), k + 1)

\* rows are visited in creation order (graduation_year is NULL in every row)
calculate_education_score(educations) ==
  IF educations = <<>> THEN 0 ELSE EducationScoreLoop(educations, 0, 1)

ExperienceBonus == 15

\* calculate_experience_score with the 90 step starting above 7 years
calculate_experience_score_Above7(years, experiences) ==
  LET score == IF years >= 10 THEN 100
               ELSE IF years > 7 THEN 90
               ELSE IF years >= 5 THEN 80
               ELSE IF years >= 3 THEN 70
               ELSE IF years >= 1 THEN 50
               ELSE 30
  IN IF \E k \in DOMAIN experiences : experiences[k].is_islamic_finance
     THEN Min(100, score + ExperienceBonus)
     ELSE score

calculate_experience_score(years, experiences) ==
  LET score == IF years >= 10 THEN 100
               ELSE IF years >= 7 THEN 90
               ELSE IF years >= 5 THEN 80
               ELSE IF years >= 3 THEN 70
               ELSE IF years >= 1 THEN 50
               ELSE 30
  IN IF \E k \in DOMAIN experiences : experiences[k].is_islamic_finance
     THEN Min(100, score + ExperienceBonus)
     ELSE score

SkillBonus == 10

\* calculate_skills_score with the bonus given once, not per row
calculate_skills_score_Once(skills) ==
  LET skill_count == Len(skills)
      score == IF skill_count >= 10 THEN 100
               ELSE IF skill_count >= 7 THEN 85
               ELSE IF skill_count >= 5 THEN 70
               ELSE IF skill_count >= 3 THEN 55
               ELSE 40
      if_skills == Cardinality({k \in DOMAIN skills : skills[k].category = "islamic_finance"})
  IN IF skill_count = 0 THEN 0
     ELSE IF if_skills > 0 THEN Min(100, score + SkillBonus)
     ELSE score

calculate_skills_score(skills) ==
  LET skill_count == Len(skills)
      score == IF skill_count >= 10 THEN 100
               ELSE IF skill_count >= 7 THEN 85
               ELSE IF skill_count >= 5 THEN 70
               ELSE IF skill_count >= 3 THEN 55
               ELSE 40
      if_skills == Cardinality({k \in DOMAIN skills : skills[k].category = "islamic_finance"})
  IN IF skill_count = 0 THEN 0
     ELSE IF if_skills > 0 THEN Min(100, score + if_skills * SkillBonus)
     ELSE score

\* calculate_islamic_finance_score counting every keyword that is in the text
calculate_islamic_finance_score_AnyKeyword(educations, experiences, skills, resume_text) ==
  LET cert == IF \E k \in DOMAIN educations : educations[k].has_islamic_finance_cert THEN 40 ELSE 0
      exper == IF \E k \in DOMAIN experiences : experiences[k].is_islamic_finance THEN 30 ELSE 0
      if_skills == Cardinality({k \in DOMAIN skills : skills[k].category = "islamic_finance"})
      valid_keyword_count ==
        Cardinality({k \in DOMAIN ISLAMIC_FINANCE_KEYWORDS :
                       In(ISLAMIC_FINANCE_KEYWORDS[k], resume_text)})
  IN Min(100, cert + exper + Min(20, if_skills * 5) + Min(10, valid_keyword_count * 2))

calculate_islamic_finance_score(educations, experiences, skills, resume_text) ==
  LET cert == IF \E k \in DOMAIN educations : educations[k].has_islamic_finance_cert THEN 40 ELSE 0
      exper == IF \E k \in DOMAIN experiences : experiences[k].is_islamic_finance THEN 30 ELSE 0
      if_skills == Cardinality({k \in DOMAIN skills : skills[k].category = "islamic_finance"})
      valid_keyword_count ==
        Cardinality({k \in DOMAIN ISLAMIC_FINANCE_KEYWORDS :
                       /\ In(ISLAMIC_FINANCE_KEYWORDS[k], resume_text)
                       /\ check_skill_context(resume_text, ISLAMIC_FINANCE_KEYWORDS[k])})
  IN Min(100, cert + exper + Min(20, if_skills * 5) + Min(10, valid_keyword_count * 2))

\* WeightedTotal with the four weights equal
WeightedTotal_Equal(education_score, experience_score, skills_score, islamic_finance_score) ==
  education_score * 2500 + experience_score * 2500 + skills_score * 2500
    + islamic_finance_score * 2500

\* final_score in units of 1/10000: 0.25, 0.30, 0.25 and 0.20 of the components
WeightedTotal(education_score, experience_score, skills_score, islamic_finance_score) ==
  education_score * 2500 + experience_score * 3000 + skills_score * 2500
    + islamic_finance_score * 2000

\* round(final_score, 2): from units of 1/10000 to hundredths
Round2(final_score) == (final_score + 50) \div 100

\* the defaults calculate_scores hands to update_or_create
calculate_scores(years, educations, experiences, skills, resume_text) ==
  LET education_score == calculate_education_score(educations)
      experience_score == calculate_experience_score(years, experiences)
      skills_score == calculate_skills_score(skills)
      islamic_finance_score ==
        calculate_islamic_finance_score(educations, experiences, skills, resume_text)
      final_score ==
        WeightedTotal(education_score, experience_score, skills_score, islamic_finance_score)
  IN [education_score |-> education_score,
      experience_score |-> experience_score,
      skills_score |-> skills_score,
      islamic_finance_score |-> islamic_finance_score,
      total_score |-> Round2(final_score)]

ZeroScores ==
  [education_score |-> 0, experience_score |-> 0, skills_score |-> 0,
   islamic_finance_score |-> 0, total_score |-> 0]

\* update_or_create that inserts a row whether or not one exists
update_or_create_Insert(rows, defaults, now) ==
  Append(rows, [education_score |-> defaults.education_score,
                experience_score |-> defaults.experience_score,
                skills_score |-> defaults.skills_score,
                islamic_finance_score |-> defaults.islamic_finance_score,
                total_score |-> defaults.total_score,
                evaluated_at |-> now])

\* Score.objects.update_or_create(candidate=candidate, defaults=defaults) on
\* the Score rows of the candidate; evaluated_at is set when a row is created
update_or_create(rows, defaults, now) ==
  IF rows = <<>>
  THEN <<[education_score |-> defaults.education_score,
          experience_score |-> defaults.experience_score,
          skills_score |-> defaults.skills_score,
          islamic_finance_score |-> defaults.islamic_finance_score,
          total_score |-> defaults.total_score,
          evaluated_at |-> now]>>
  ELSE [rows EXCEPT ![1] = [@ EXCEPT !.education_score = defaults.education_score,
                                     !.experience_score = defaults.experience_score,
                                     !.skills_score = defaults.skills_score,
                                     !.islamic_finance_score = defaults.islamic_finance_score,
                                     !.total_score = defaults.total_score]]

\* ------------------------------------------------------------------------
\* Enhancer: MLScoreEnhancer of ml_scoring.py
\* ------------------------------------------------------------------------
\* predict_quality returns None while the model is not trained
None == -1

\* the estimates of the model, in hundredths
Estimates == {0, 5000, 10000}

\* round(probability * 100, 2) of the trained model, in hundredths
predict_quality(trained, estimate) == IF ~trained THEN None ELSE estimate

\* rule_based_score in units of 1/10000; the blend is rounded to hundredths,
\* the rule-based score is returned as it came
get_enhanced_score(trained, estimate, rule_based_score) ==
  LET ml_score_ == predict_quality(trained, estimate)
  IN IF ml_score_ = None THEN rule_based_score
     ELSE Round2((rule_based_score * 7 + ml_score_ * 100 * 3) \div 10)

\* ------------------------------------------------------------------------
\* State: one candidate and the rows that belong to it
\* ------------------------------------------------------------------------
VARIABLES
  resume,            \* the Resume row: kind "none" (no row), "null" or "text"
  years_experience,  \* Candidate.years_experience
  education,         \* Education rows, in creation order
  experience,        \* Experience rows, in creation order
  skills,            \* Skill rows, in creation order
  scores,            \* Score rows of the candidate
  passes,            \* calls of analyze_resume so far
  edited,            \* the text was set after the last call
  last,              \* the path the last call took and the defaults it wrote
  is_trained,        \* ml_enhancer.is_trained
  ml_score,          \* what predict_quality returns for the candidate once trained
  tables,            \* the tables when several candidates are analysed at a time
  workers            \* the calls of analyze_resume in progress, one per candidate

\* the tables and calls of the runs with several candidates
conc == <<tables, workers>>

vars ==
  <<resume, years_experience, education, experience, skills, scores, passes, edited, last,
    is_trained, ml_score, conc>>

NoTables == [Resume |-> <<>>, Candidate |-> <<>>, Education |-> <<>>, Experience |-> <<>>,
             Skill |-> <<>>, Score |-> <<>>]

\* the bodies, and the bodies with one filler before, between or after
\* their phrases
WithFiller(bodies) ==
  bodies \cup UNION {{[i \in 1..Len(t) + 1 |->
                          IF i <= k THEN t[i] ELSE IF i = k + 1 THEN "pad" ELSE t[i - 1]]
                        : k \in 0..Len(t)} : t \in bodies}

\* longer texts: two matches of the years pattern more than 50 characters
\* apart, the first or the second of them negated; two job titles in an
\* experience context; a negated title before one in an experience context;
\* 57 words, none of them repeated, with 7 of the phrases of all_skills;
\* a certification next to a negated degree and next to two degrees
CaseTexts ==
  {<<"not", "yrs7", "pad", "yrs150">>, <<"yrs7", "pad", "not", "yrs150">>,
   <<"workedas", "fundmgr", "analyst", "pad">>,
   <<"not", "analyst", "pad", "workedas", "fundmgr">>,
   <<"not", "fundmgr", "pad", "workedas", "fundmgr">>,
   <<"perfect", "keywords">>,
   <<"not", "phd", "cife", "pad">>, <<"phd", "msc", "cife", "pad">>}

Texts ==
  WithFiller(BoundedSeq(Alphabet, MaxLen) \cup BoundedSeq(CtxAlphabet, MaxCtxLen))
    \cup {<<s>> : s \in WholeTexts} \cup CaseTexts

\* the texts a resume is replaced by: empty, under 50 characters, filler
\* only, stuffed, and one that claims a skill
ReTexts ==
  {<<>>, <<"expert", "python">>, <<"pad">>, <<"pad", "stuff">>, <<"expert", "python", "pad">>}

NoResume == [kind |-> "none", parsed_text |-> <<>>]

NullText == [kind |-> "null", parsed_text |-> <<>>]

TextResume(t) == [kind |-> "text", parsed_text |-> t]

Init ==
  /\ resume \in {NoResume, NullText} \cup {TextResume(t) : t \in Texts}
  /\ years_experience = 0
  /\ education = <<>>
  /\ experience = <<>>
  /\ skills = <<>>
  /\ scores = <<>>
  /\ passes = 0
  /\ edited = FALSE
  /\ last = [path |-> "none", defaults |-> ZeroScores]
  /\ is_trained = FALSE
  /\ ml_score = 0
  /\ tables = NoTables
  /\ workers = <<>>

MinChars == 50

\* Validate without the keyword-stuffing check
Validate_NoStuffing(r) ==
  IF r.kind # "text" \/ r.parsed_text = <<>> THEN "no_text"
  ELSE IF TextLen(r.parsed_text) < MinChars THEN "too_short"
  ELSE "passed"

\* Validate without the length check
Validate_NoLength(r) ==
  IF r.kind # "text" \/ r.parsed_text = <<>> THEN "no_text"
  ELSE IF detect_keyword_stuffing(Scan(r.parsed_text)) THEN "stuffing"
  ELSE "passed"

\* the checks at the head of analyze_resume, in order
Validate(r) ==
  IF r.kind # "text" \/ r.parsed_text = <<>> THEN "no_text"
  ELSE IF TextLen(r.parsed_text) < MinChars THEN "too_short"
  ELSE IF detect_keyword_stuffing(Scan(r.parsed_text)) THEN "stuffing"
  ELSE "passed"

\* an early return of analyze_resume: the zero score is stored, nothing else
\* a gated pass that also resets the stored years
Gated_ResetYears(path) ==
  /\ passes < MaxPasses
  /\ Validate(resume) = path
  /\ scores' = update_or_create(scores, ZeroScores, passes + 1)
  /\ passes' = passes + 1
  /\ edited' = FALSE
  /\ last' = [path |-> path, defaults |-> ZeroScores]
  /\ years_experience' = 0
  /\ UNCHANGED <<resume, education, experience, skills, is_trained, ml_score, conc>>

Gated(path) ==
  /\ passes < MaxPasses
  /\ Validate(resume) = path
  /\ scores' = update_or_create(scores, ZeroScores, passes + 1)
  /\ passes' = passes + 1
  /\ edited' = FALSE
  /\ last' = [path |-> path, defaults |-> ZeroScores]
  /\ UNCHANGED <<resume, years_experience, education, experience, skills, is_trained, ml_score, conc>>

AnalyzeNoText == Gated("no_text")

AnalyzeTooShort == Gated("too_short")

AnalyzeStuffing == Gated("stuffing")

\* the full pass: extraction, then calculate_scores
AnalyzeFull ==
  /\ passes < MaxPasses
  /\ Validate(resume) = "passed"
  /\ LET resume_text == Scan(resume.parsed_text)
         educations == extract_education(education, resume_text)
         years == extract_years(years_experience, resume_text)
         experiences == extract_experience(experience, resume_text)
         skill_rows == extract_skills(skills, resume_text)
         defaults == calculate_scores(years, educations, experiences, skill_rows, resume_text)
     IN /\ education' = educations
        /\ years_experience' = years
        /\ experience' = experiences
        /\ skills' = skill_rows
        /\ scores' = update_or_create(scores, defaults, passes + 1)
        /\ last' = [path |-> "passed", defaults |-> defaults]
  /\ passes' = passes + 1
  /\ edited' = FALSE
  /\ UNCHANGED <<resume, is_trained, ml_score, conc>>

analyze_resume == AnalyzeNoText \/ AnalyzeTooShort \/ AnalyzeStuffing \/ AnalyzeFull

\* another text is stored in Resume.parsed_text between two passes (before
\* the first pass the text is the one of Init; a second replacement in a row
\* only overwrites the first)
SetParsedText ==
  /\ passes >= 1
  /\ passes < MaxPasses
  /\ ~edited
  /\ \E t \in ReTexts : resume' = TextResume(t)
  /\ edited' = TRUE
  /\ UNCHANGED <<years_experience, education, experience, skills, scores, passes, last,
                 is_trained, ml_score, conc>>

Next ==
  \/ AnalyzeNoText
  \/ AnalyzeTooShort
  \/ AnalyzeStuffing
  \/ AnalyzeFull
  \/ SetParsedText

Spec == Init /\ [][Next]_vars

\* train_model of ml_views.train_ml_model: from then on predict_quality
\* returns an estimate for the candidate
train_model ==
  /\ passes < MaxPasses
  /\ \E estimate \in Estimates : ml_score' = estimate
  /\ is_trained' = TRUE
  /\ UNCHANGED <<resume, years_experience, education, experience, skills, scores, passes,
                 edited, last, conc>>

\* one candidate with one of the replacement texts, the enhancer not trained
MLInit ==
  /\ resume \in {TextResume(t) : t \in ReTexts}
  /\ years_experience = 0
  /\ education = <<>>
  /\ experience = <<>>
  /\ skills = <<>>
  /\ scores = <<>>
  /\ passes = 0
  /\ edited = FALSE
  /\ last = [path |-> "none", defaults |-> ZeroScores]
  /\ is_trained = FALSE
  /\ ml_score = 0
  /\ tables = NoTables
  /\ workers = <<>>

MLNext ==
  \/ AnalyzeNoText
  \/ AnalyzeTooShort
  \/ AnalyzeStuffing
  \/ AnalyzeFull
  \/ SetParsedText
  \/ train_model

\* the pipeline next to the training of the enhancer
MLSpec == MLInit /\ [][MLNext]_vars

\* ------------------------------------------------------------------------
\* Several candidates: one call of analyze_resume per candidate, the calls
\* interleaved at the statements that read or write a table
\* ------------------------------------------------------------------------
Candidates == {"A", "B"}

\* the texts of the candidates
ConcTexts ==
  {<<>>, <<"expert", "python">>, <<"pad", "stuff">>, <<"expert", "stuff">>,
   <<"phd", "cife", "pad">>, <<"yrs7", "takaful", "pad">>, <<"workedas", "fundmgr", "pad">>}

\* Manager.all() of a table, every candidate's rows
RowsOf_All(table, c) == [k \in DOMAIN table |-> table[k].row]

\* candidate.education.all() and the like: the rows with the foreign key c
RowsOf(table, c) ==
  LET own == SelectSeq(table, LAMBDA r : r.candidate = c)
  IN [k \in DOMAIN own |-> own[k].row]

\* objects.create(candidate=c, ...) for each of the rows
Tagged(rows, c) == [k \in DOMAIN rows |-> [candidate |-> c, row |-> rows[k]]]

\* Score.objects.update_or_create(candidate=c, defaults=defaults)
update_or_create_for(table, c, defaults) ==
  LET own == RowsOf(table, c)
      rest == SelectSeq(table, LAMBDA r : r.candidate # c)
  IN rest \o Tagged(update_or_create(own, defaults, 1), c)

ConcInit ==
  /\ resume = NoResume
  /\ years_experience = 0
  /\ education = <<>>
  /\ experience = <<>>
  /\ skills = <<>>
  /\ scores = <<>>
  /\ passes = 0
  /\ edited = FALSE
  /\ last = [path |-> "none", defaults |-> ZeroScores]
  /\ is_trained = FALSE
  /\ ml_score = 0
  /\ \E texts \in [Candidates -> ConcTexts] :
        tables = [Resume |-> [c \in Candidates |-> TextResume(texts[c])],
                  Candidate |-> [c \in Candidates |-> 0],
                  Education |-> <<>>, Experience |-> <<>>, Skill |-> <<>>, Score |-> <<>>]
  /\ workers = [c \in Candidates |-> [pc |-> "start", years_experience |-> 0, pending |-> <<>>]]

solo ==
  <<resume, years_experience, education, experience, skills, scores, passes, edited, last,
    is_trained, ml_score>>

\* the head of analyze_resume(c): the early returns, or on to extract_education
Begin(c) ==
  /\ workers[c].pc = "start"
  /\ LET path == Validate(tables.Resume[c])
     IN IF path # "passed"
        THEN /\ tables' = [tables EXCEPT !.Score = update_or_create_for(@, c, ZeroScores)]
             /\ workers' = [workers EXCEPT ![c].pc = "done"]
        ELSE /\ workers' = [workers EXCEPT
                  ![c].pc = "Education",
                  ![c].pending = extract_education(<<>>, Scan(tables.Resume[c].parsed_text))]
             /\ UNCHANGED tables
  /\ UNCHANGED solo

\* one objects.create of the extractor the call is in
Create(c) ==
  /\ workers[c].pc \in {"Education", "Experience", "Skill"}
  /\ workers[c].pending # <<>>
  /\ tables' = [tables EXCEPT ![workers[c].pc] =
                   Append(@, [candidate |-> c, row |-> Head(workers[c].pending)])]
  /\ workers' = [workers EXCEPT ![c].pending = Tail(@)]
  /\ UNCHANGED solo

\* extract_experience(c) up to its loop: candidate.save() with the years
\* of the text, then the rows the loop is going to create
BeginExperience(c) ==
  /\ workers[c].pc = "Education"
  /\ workers[c].pending = <<>>
  /\ LET text == Scan(tables.Resume[c].parsed_text)
         years == extract_years(workers[c].years_experience, text)
     IN /\ tables' = [tables EXCEPT !.Candidate[c] = years]
        /\ workers' = [workers EXCEPT ![c].pc = "Experience",
                                       ![c].years_experience = years,
                                       ![c].pending = extract_experience(<<>>, text)]
  /\ UNCHANGED solo

\* extract_skills(c): the rows its loops are going to create
BeginSkills(c) ==
  /\ workers[c].pc = "Experience"
  /\ workers[c].pending = <<>>
  /\ workers' = [workers EXCEPT
        ![c].pc = "Skill",
        ![c].pending = extract_skills(<<>>, Scan(tables.Resume[c].parsed_text))]
  /\ UNCHANGED <<tables, solo>>

\* calculate_scores(c) and the return
Finish(c) ==
  /\ workers[c].pc = "Skill"
  /\ workers[c].pending = <<>>
  /\ LET defaults ==
           calculate_scores(workers[c].years_experience, RowsOf(tables.Education, c),
                            RowsOf(tables.Experience, c), RowsOf(tables.Skill, c),
                            Scan(tables.Resume[c].parsed_text))
     IN tables' = [tables EXCEPT !.Score = update_or_create_for(@, c, defaults)]
  /\ workers' = [workers EXCEPT ![c].pc = "done"]
  /\ UNCHANGED solo

ConcNext ==
  \E c \in Candidates :
     \/ Begin(c)
     \/ Create(c)
     \/ BeginExperience(c)
     \/ BeginSkills(c)
     \/ Finish(c)

ConcSpec == ConcInit /\ [][ConcNext]_vars

\* ------------------------------------------------------------------------
\* The scorer on its own: calculate_scores applied to rows a candidate can
\* have, whichever passes or admin edits left them
\* ------------------------------------------------------------------------
EducationRows ==
  {[degree |-> d, field_of_study |-> "Law", institution |-> "Extracted from resume",
    has_islamic_finance_cert |-> b] : d \in {"PHD", "M.SC", "BACHELOR"}, b \in BOOLEAN}
    \cup {NotSpecified}

CertRows == {r \in EducationRows : r.degree = "PHD"}

\* one row for every degree a pattern of extract_education can store
DegreeRows ==
  {[degree |-> Upper(d), field_of_study |-> "Law", institution |-> "Extracted from resume",
    has_islamic_finance_cert |-> b] : d \in DegreeTokens, b \in BOOLEAN}

ExperienceRows ==
  {[company |-> "Extracted from resume", position |-> "Fund Manager",
    is_islamic_finance |-> b] : b \in BOOLEAN}

\* n Skill rows of the category islamic_finance, after other technical ones
SkillRows(other, n) ==
  [k \in 1..other |-> [skill_name |-> "Python", category |-> "technical",
                        proficiency_level |-> "intermediate"]]
    \o [k \in 1..n |-> [skill_name |-> "Takaful", category |-> "islamic_finance",
                          proficiency_level |-> "advanced"]]

\* texts with none, one or several domain keywords, and one with a negated keyword
ScorerTexts ==
  {<<"pad">>, <<"expert", "takaful", "pad">>, <<"not", "takaful", "pad">>,
   <<"perfect">>, <<"keywords">>}

ScorerInit ==
  /\ scores = <<>>
  /\ passes = 0
  /\ edited = FALSE
  /\ last = [path |-> "none", defaults |-> ZeroScores]
  /\ is_trained = FALSE
  /\ ml_score = 0
  /\ tables = NoTables
  /\ workers = <<>>
  /\ \/ /\ education \in BoundedSeq(EducationRows, MaxRows)
        /\ years_experience = 0
        /\ experience = <<>>
        /\ skills = <<>>
        /\ resume = TextResume(<<"pad">>)
     \/ /\ education = <<>>
        /\ years_experience \in 0..MaxYears
        /\ experience \in BoundedSeq(ExperienceRows, MaxRows)
        /\ skills = <<>>
        /\ resume = TextResume(<<"pad">>)
     \/ /\ education \in BoundedSeq(CertRows, MaxRows)
        /\ years_experience = 0
        /\ experience \in BoundedSeq(ExperienceRows, MaxRows)
        /\ skills \in {SkillRows(other, n) : other \in 0..1, n \in 0..MaxSkills}
        /\ resume \in {TextResume(t) : t \in ScorerTexts}
     \/ /\ education = <<>>
        /\ years_experience = 0
        /\ experience = <<>>
        /\ skills \in {SkillRows(other, n) : other \in 0..MaxOther, n \in 0..MaxSkills}
        /\ resume = TextResume(<<"pad">>)
     \/ /\ education \in {<<r>> : r \in DegreeRows}
        /\ years_experience = 0
        /\ experience = <<>>
        /\ skills = <<>>
        /\ resume = TextResume(<<"pad">>)

\* calculate_scores(candidate) on the rows as they are
Rescore ==
  /\ passes < MaxPasses
  /\ LET defaults == calculate_scores(years_experience, education, experience, skills,
                                      Scan(resume.parsed_text))
     IN /\ scores' = update_or_create(scores, defaults, passes + 1)
        /\ last' = [path |-> "scored", defaults |-> defaults]
  /\ passes' = passes + 1
  /\ UNCHANGED <<resume, years_experience, education, experience, skills, edited,
                 is_trained, ml_score, conc>>

ScorerSpec == ScorerInit /\ [][Rescore]_vars

\* ------------------------------------------------------------------------
\* Properties
\* ------------------------------------------------------------------------
\* the text of the resume, scanned
Doc == Scan(resume.parsed_text)

\* a call of analyze_resume
Pass == passes' = passes + 1

\* the five values of a Score row
Values(row) ==
  [education_score |-> row.education_score, experience_score |-> row.experience_score,
   skills_score |-> row.skills_score, islamic_finance_score |-> row.islamic_finance_score,
   total_score |-> row.total_score]

\* the call created no Education, Experience or Skill row
NothingExtracted == education' = education /\ experience' = experience /\ skills' = skills

\* the phrases check_skill_context is called with
Phrases ==
  Range(financial_skills) \cup Range(islamic_skills) \cup Range(technical_skills)
    \cup Range(ISLAMIC_FINANCE_KEYWORDS)

\* a negative indicator lies within 100 characters before or after match m
Negated(text, m) ==
  AnyIn(NEGATIVE_INDICATORS, text, Max(0, m.start - 100), Min(text.len, m.end + 100))

\* a positive indicator lies within 100 characters before or after match m
Affirmed(text, m) ==
  AnyIn(POSITIVE_SKILL_INDICATORS, text, Max(0, m.start - 100), Min(text.len, m.end + 100))

\* a section header lies in the 300 characters before match m
HeaderBefore(text, m) ==
  \E o \in text.occ :
     /\ \E h \in DOMAIN skill_section_indicators : skill_section_indicators[h] = o.s
     /\ Max(0, m.start - 300) <= o.start
     /\ o.end <= m.start

\* every occurrence of phrase p has a negative indicator within 100 characters
EveryOccurrenceNegated(text, p) ==
  LET matches == finditer(p, text)
  IN \A k \in DOMAIN matches : Negated(text, matches[k])

\* the phrases check_skill_context is called with that occur in the text
PhrasesIn(text) == Phrases \cap text.sub

\* C1: every stored score - education, experience, skills, islamic_finance
\* and total - lies in [0,100] after any sequence of passes
C1_ScoresInRange ==
  \A k \in DOMAIN scores :
     /\ scores[k].education_score \in 0..100
     /\ scores[k].experience_score \in 0..100
     /\ scores[k].skills_score \in 0..100
     /\ scores[k].islamic_finance_score \in 0..100
     /\ scores[k].total_score \in 0..10000

\* a second pass has stored an education score at the cap, from a doctorate
\* row that also carries the certification bonus
C1_Witness ==
  /\ passes >= 2
  /\ last.path = "passed"
  /\ scores[1].education_score = 100
  /\ \E k \in DOMAIN education :
        education[k].degree = "PHD" /\ education[k].has_islamic_finance_cert

\* C2: the stored total is 0.25 education + 0.30 experience + 0.25 skills
\* + 0.20 islamic_finance of the stored components, to 2 decimals
C2_TotalIsWeightedSum ==
  \A k \in DOMAIN scores :
     scores[k].total_score =
       25 * scores[k].education_score + 30 * scores[k].experience_score
         + 25 * scores[k].skills_score + 20 * scores[k].islamic_finance_score

\* a full pass has stored three non-zero components that differ
C2_Witness ==
  /\ last.path = "passed"
  /\ scores[1].experience_score > 0
  /\ scores[1].skills_score > scores[1].experience_score
  /\ scores[1].islamic_finance_score > 0
  /\ scores[1].islamic_finance_score < scores[1].experience_score

\* C3: a pass on a text for which detect_keyword_stuffing is true stores 0
\* for all five scores and creates no Education, Experience or Skill row
C3_StuffingGate ==
  [][(Pass /\ resume.kind = "text" /\ detect_keyword_stuffing(Doc))
       => (Len(scores') = 1 /\ Values(scores'[1]) = ZeroScores /\ NothingExtracted)]_vars

\* the last pass was stopped by the stuffing check on a text in which
\* python stands in an affirmative context
C3_Witness ==
  /\ last.path = "stuffing"
  /\ ~edited
  /\ check_skill_context(Doc, "python")
  /\ skills = <<>>

\* C4: with no resume, empty text or text under 50 characters the pass
\* stores the zero score and creates no row; after any pass a Score row exists
C4_EmptyInput ==
  /\ [](passes >= 1 => Len(scores) = 1)
  /\ [][(Pass /\ (resume.kind # "text" \/ resume.parsed_text = <<>> \/ Doc.len < 50))
          => (Len(scores') = 1 /\ Values(scores'[1]) = ZeroScores /\ NothingExtracted)]_vars

\* the last pass returned early on a text of under 50 characters in which
\* python stands in an affirmative context
C4_Witness ==
  /\ last.path = "too_short"
  /\ ~edited
  /\ Doc.len > 0
  /\ check_skill_context(Doc, "python")
  /\ skills = <<>>
  /\ Len(scores) = 1

\* some word longer than 3 characters is more than 10% of the words
DominantWord(toks) ==
  \E word \in LongWords(toks) : WordFreq(word, toks, 1) * 10 > WordCount(toks, 1)

\* C5: a pass on a text in which one word longer than 3 characters is more
\* than 10% of all words stores total 0 and creates no row
C5_DominantWordGated ==
  [][(Pass /\ resume.kind = "text" /\ DominantWord(resume.parsed_text))
       => (scores'[1].total_score = 0 /\ NothingExtracted)]_vars

\* C6: when every occurrence of a phrase has a negative indicator within 100
\* characters, check_skill_context is false and the pass creates no Skill row
\* for the phrase
C6_NegationVeto ==
  /\ [](resume.kind = "text" =>
          LET text == Doc
          IN \A p \in PhrasesIn(text) :
                EveryOccurrenceNegated(text, p) => ~check_skill_context(text, p))
  /\ [][(Pass /\ resume.kind = "text") =>
          LET text == Doc
          IN \A p \in PhrasesIn(text) :
                EveryOccurrenceNegated(text, p) =>
                   \A k \in (Len(skills) + 1)..Len(skills') : skills'[k].skill_name # Title(p)]_vars

\* a full pass ran on a text in which python occurs, each time negated, once
\* under a section header and once next to a positive indicator, and left
\* no Skill row
C6_Witness ==
  /\ last.path = "passed"
  /\ ~edited
  /\ LET text == Doc
         matches == finditer("python", text)
     IN /\ matches # <<>>
        /\ EveryOccurrenceNegated(text, "python")
        /\ \E k \in DOMAIN matches : HeaderBefore(text, matches[k])
        /\ \E k \in DOMAIN matches : Affirmed(text, matches[k])
  /\ skills = <<>>

\* C7: an occurrence with a section header in the 300 characters before it
\* and no negative indicator within 100 characters makes check_skill_context
\* true, whatever follows the match
C7_HeaderOverride ==
  resume.kind = "text" =>
    LET text == Doc
    IN \A p \in PhrasesIn(text) :
          LET matches == finditer(p, text)
          IN \A k \in DOMAIN matches :
                (HeaderBefore(text, matches[k]) /\ ~Negated(text, matches[k]))
                   => check_skill_context(text, p)

\* C8: check_skill_context is true exactly when some occurrence, taken on
\* its own, is accepted by a header or a positive indicator
C8_AnyOccurrence ==
  resume.kind = "text" =>
    LET text == Doc
    IN \A p \in PhrasesIn(text) :
          LET matches == finditer(p, text)
          IN check_skill_context(text, p) <=>
                \E k \in DOMAIN matches : OccurrenceVerdict(text, matches[k]) = "accept"

\* C9: a second pass in a row on the same text leaves the same set of
\* extracted records and the same score as the first
C9_RepeatChangesNothing ==
  [][(Pass /\ passes >= 1 /\ ~edited)
       => /\ Range(education') = Range(education)
          /\ Range(experience') = Range(experience)
          /\ Range(skills') = Range(skills)
          /\ years_experience' = years_experience
          /\ scores' = scores]_vars

\* C10: after any sequence of passes the candidate has exactly one Score
\* row and its five values are those the most recent pass wrote
C10_OneScoreRow ==
  /\ passes = 0 => scores = <<>>
  /\ passes >= 1 => (Len(scores) = 1 /\ Values(scores[1]) = last.defaults)

\* the row created by a first, gated pass holds the non-zero values of a
\* second, full pass
C10_Witness ==
  /\ passes = 2
  /\ last.path = "passed"
  /\ Len(education) = 1
  /\ Len(scores) = 1
  /\ scores[1].evaluated_at = 1
  /\ scores[1].total_score > 0

\* the weighted sum of the components the last call wrote, in units of 1/10000
Composite(defaults) ==
  WeightedTotal(defaults.education_score, defaults.experience_score, defaults.skills_score,
                defaults.islamic_finance_score)

\* C11: a full pass stores round(0.7 * composite + 0.3 * estimate, 2) when
\* the enhancer has an estimate, and round(composite, 2) when it has none
C11_BlendPersisted ==
  [][(Pass /\ last'.path = "passed") =>
       scores'[1].total_score =
         IF is_trained THEN get_enhanced_score(is_trained, ml_score, Composite(last'.defaults))
         ELSE Round2(Composite(last'.defaults))]_vars

\* what the caller of analyze_resume has after the call: the candidate it
\* passed in, which every return hands back, with its rows
Outcome ==
  [years_experience |-> years_experience, education |-> education, experience |-> experience,
   skills |-> skills, scores |-> scores]

\* what the return for missing or too short text leaves the caller with
EmptyInputOutcome ==
  [years_experience |-> years_experience, education |-> education, experience |-> experience,
   skills |-> skills, scores |-> update_or_create(scores, ZeroScores, passes + 1)]

\* C12: what a pass stopped by the stuffing check leaves the caller with
\* differs from what a pass stopped for missing or too short text leaves
C12_StuffingFlagged ==
  [][(Pass /\ last'.path = "stuffing") => Outcome' # EmptyInputOutcome]_vars

\* the first pass has run on the whole text s of recruitment/tests.py
FirstPassOn(s) == passes = 1 /\ ~edited /\ resume = TextResume(<<s>>)

\* C13: the first pass on the text of test_perfect_candidate stores
\* education >= 100, experience >= 90, skills >= 85, islamic_finance >= 80
\* and total >= 85
C13_PerfectCandidate ==
  FirstPassOn("perfect") =>
    /\ scores[1].education_score >= 100
    /\ scores[1].experience_score >= 90
    /\ scores[1].skills_score >= 85
    /\ scores[1].islamic_finance_score >= 80
    /\ scores[1].total_score >= 8500

\* C14: a full pass on a text with no years-of-experience phrase and no
\* domain keyword in an affirmative context stores experience 30; on the
\* text of test_junior_candidate it stores skills < 50 and total < 50
C14_DefaultFloor ==
  [][(Pass /\ last'.path = "passed") =>
       LET text == Doc
       IN /\ (text.yrs = <<>> /\ ~is_islamic_finance(text))
               => scores'[1].experience_score = 30
          /\ resume.parsed_text = <<"junior">>
               => (scores'[1].skills_score < 50 /\ scores'[1].total_score < 5000)]_vars

\* C15: the first pass on the text of test_ambiguous_mentions leaves fewer
\* than 2 Skill rows
C15_MentionsNotExtracted == FirstPassOn("ambiguous") => Len(skills) < 2

\* the rows of table that belong to candidate c
Own(table, c) ==
  LET own == SelectSeq(table, LAMBDA r : r.candidate = c)
  IN [k \in DOMAIN own |-> own[k].row]

\* what the tables hold of candidate c
View(c) ==
  LET score == Own(tables.Score, c)
  IN [years_experience |-> tables.Candidate[c],
      education |-> Own(tables.Education, c),
      experience |-> Own(tables.Experience, c),
      skills |-> Own(tables.Skill, c),
      scores |-> [k \in DOMAIN score |-> Values(score[k])]]

\* what one call of analyze_resume on candidate c alone leaves
Alone(c) ==
  LET r == tables.Resume[c]
      text == Scan(r.parsed_text)
      educations == extract_education(<<>>, text)
      years == extract_years(0, text)
      experiences == extract_experience(<<>>, text)
      skill_rows == extract_skills(<<>>, text)
  IN IF Validate(r) # "passed"
     THEN [years_experience |-> 0, education |-> <<>>, experience |-> <<>>, skills |-> <<>>,
           scores |-> <<ZeroScores>>]
     ELSE [years_experience |-> years, education |-> educations, experience |-> experiences,
           skills |-> skill_rows,
           scores |-> <<calculate_scores(years, educations, experiences, skill_rows, text)>>]

\* C16: however the calls on two candidates interleave, a candidate whose
\* call has returned has the rows, years and score of a call run alone, and
\* a step of one call leaves what the tables hold of the other candidate
C16_Isolation ==
  /\ [](\A c \in DOMAIN workers : workers[c].pc = "done" => View(c) = Alone(c))
  /\ [][\A c \in DOMAIN workers : workers'[c] = workers[c] => View(c)' = View(c)]_vars

\* both calls have returned after a full pass, and in one table the first
\* row is of A and in another of B
C16_Witness ==
  /\ workers # <<>>
  /\ \A c \in Candidates : workers[c].pc = "done" /\ Own(tables.Skill, c) # <<>>
  /\ tables.Education[1].candidate = "A"
  /\ tables.Skill[1].candidate = "B"
  /\ tables.Score[1].candidate = "B"

\* C17: after any pass the stored years of experience are at most 100
C17_YearsPlausible == years_experience <= 100

\* the score of one Education row by itself: its bucket of DEGREE_SCORES,
\* plus the bonus capped at 100 when the row has the certification flag
RecordScore(edu) ==
  LET bucket == DegreeLoop(Lower(edu.degree), 0, 1)
  IN IF edu.has_islamic_finance_cert THEN Min(100, bucket + CertBonus) ELSE bucket

\* the largest number of a non-empty finite set
Largest(S) == CHOOSE x \in S : \A y \in S : y <= x

\* C18: the education score is the largest score of a single Education row
\* (its bucket, plus 20 capped at 100 if that row is flagged), 0 without rows
C18_BestRecord ==
  last.path = "scored" =>
    scores[1].education_score =
      Largest({0} \cup {RecordScore(education[k]) : k \in DOMAIN education})

\* the rows of a sequence that satisfy a test, counted
Count(rows, Test(_)) == Cardinality({k \in DOMAIN rows : Test(rows[k])})

\* the domain keywords that are in the text and pass check_skill_context
ValidKeywords(text) ==
  {kw \in Range(ISLAMIC_FINANCE_KEYWORDS) \cap text.sub : check_skill_context(text, kw)}

\* C19: the islamic_finance score is min(100, 40 if a row is certified + 30
\* if a row has domain experience + min(20, 5 per domain skill row)
\* + min(10, 2 per valid keyword))
C19_DomainScore ==
  last.path = "scored" =>
    LET cert == IF Count(education, LAMBDA r : r.has_islamic_finance_cert) > 0 THEN 40 ELSE 0
        exper == IF Count(experience, LAMBDA r : r.is_islamic_finance) > 0 THEN 30 ELSE 0
        skill == 5 * Count(skills, LAMBDA r : r.category = "islamic_finance")
        words == 2 * Cardinality(ValidKeywords(Doc))
    IN scores[1].islamic_finance_score
         = Min(100, cert + exper + Min(20, skill) + Min(10, words))

\* all four parts at their caps: the score is 100
C19_Witness ==
  /\ last.path = "scored"
  /\ Count(education, LAMBDA r : r.has_islamic_finance_cert) > 0
  /\ Count(experience, LAMBDA r : r.is_islamic_finance) > 0
  /\ Count(skills, LAMBDA r : r.category = "islamic_finance") > 4
  /\ Cardinality(ValidKeywords(Doc)) > 5
  /\ scores[1].islamic_finance_score = 100

\* the step table of the years of experience
YearsStep(years) ==
  CASE years >= 10 -> 100
    [] years \in 7..9 -> 90
    [] years \in 5..6 -> 80
    [] years \in 3..4 -> 70
    [] years \in 1..2 -> 50
    [] OTHER -> 30

\* C20: the experience score is the step of the stored years, plus 15
\* capped at 100 when some Experience row has the domain flag
C20_ExperienceScore ==
  last.path = "scored" =>
    scores[1].experience_score =
      IF Count(experience, LAMBDA r : r.is_islamic_finance) > 0
      THEN Min(100, YearsStep(years_experience) + 15)
      ELSE YearsStep(years_experience)

\* 7 years and a second row with the domain flag: 90 + 15, capped
C20_Witness ==
  /\ last.path = "scored"
  /\ years_experience = 7
  /\ Len(experience) = 2
  /\ ~experience[1].is_islamic_finance
  /\ experience[2].is_islamic_finance
  /\ scores[1].experience_score = 100

\* the step table of the number of Skill rows
CountStep(n) ==
  CASE n >= 10 -> 100
    [] n \in 7..9 -> 85
    [] n \in 5..6 -> 70
    [] n \in 3..4 -> 55
    [] n \in 1..2 -> 40
    [] OTHER -> 0

\* C21: the skills score is the step of the number of Skill rows plus 10 per
\* row of the category islamic_finance, capped at 100, and 0 without rows
C21_SkillsScore ==
  last.path = "scored" =>
    scores[1].skills_score =
      IF skills = <<>> THEN 0
      ELSE Min(100, CountStep(Len(skills))
                      + 10 * Count(skills, LAMBDA r : r.category = "islamic_finance"))

\* five rows, two of them of the domain: 70 + 2 * 10, under the cap
C21_Witness ==
  /\ last.path = "scored"
  /\ Len(skills) = 5
  /\ Count(skills, LAMBDA r : r.category = "islamic_finance") = 2
  /\ scores[1].skills_score = 90

\* a negative indicator lies within n characters of the match m
NegativeNear(text, m, n) ==
  \E o \in text.occ :
     /\ o.s \in Range(NEGATIVE_INDICATORS)
     /\ o.start >= Max(0, m.start - n)
     /\ o.end <= Min(text.len, m.end + n)

\* C22: a full pass looks at the first match of the years pattern only: the
\* stored years become its value iff no negative indicator is within 50
\* characters of it, and stay as they were if it is vetoed or nothing matches
C22_FirstYearsMatch ==
  [][(Pass /\ last'.path = "passed") =>
       years_experience' =
         IF Doc.yrs # <<>> /\ ~NegativeNear(Doc, Doc.yrs[1], 50)
         THEN Doc.yrs[1].years
         ELSE years_experience]_vars

\* the first match is vetoed, a later one is not, and the first pass left
\* the years at 0
C22_Witness ==
  /\ passes = 1
  /\ last.path = "passed"
  /\ Len(Doc.yrs) = 2
  /\ NegativeNear(Doc, Doc.yrs[1], 50)
  /\ ~NegativeNear(Doc, Doc.yrs[2], 50)
  /\ years_experience = 0

\* the rows a step appended to a table
Added(before, after) == SubSeq(after, Len(before) + 1, Len(after))

\* some match of a degree pattern has no negative indicator within 50 characters
DegreeSurvives(text) ==
  \E k \in DOMAIN text.deg : ~NegativeNear(text, text.deg[k], 50)

\* C23: after a full pass the candidate has an Education row, and the pass
\* created the placeholder row exactly when no degree match survived the
\* negative-context check
C23_EducationNeverEmpty ==
  [][(Pass /\ last'.path = "passed") =>
       /\ Len(education') >= 1
       /\ Added(education, education') # <<>>
       /\ (NotSpecified \in Range(Added(education, education'))) = ~DegreeSurvives(Doc)
       /\ ~DegreeSurvives(Doc) => Added(education, education') = <<NotSpecified>>]_vars

\* the only degree match of the text is negated and the first pass left the
\* placeholder row alone
C23_Witness ==
  /\ passes = 1
  /\ last.path = "passed"
  /\ Doc.deg # <<>>
  /\ ~DegreeSurvives(Doc)
  /\ education = <<NotSpecified>>

\* an experience-context phrase lies within n characters of the match m
ExperienceNear(text, m, n) ==
  \E o \in text.occ :
     /\ o.s \in Range(experience_indicators)
     /\ o.start >= Max(0, m.start - n)
     /\ o.end <= Min(text.len, m.end + n)

\* the first occurrence of the job title in the text
FirstOccurrence(text, title) ==
  LET found == {k \in DOMAIN text.wm : text.wm[k].p = title}
  IN text.wm[CHOOSE k \in found : \A j \in found : k <= j]

\* the places in job_titles of the titles whose first occurrence has an
\* experience-context phrase and no negative indicator within 100 characters
Qualifying(text) ==
  {k \in DOMAIN job_titles :
     /\ \E j \in DOMAIN text.wm : text.wm[j].p = job_titles[k]
     /\ ExperienceNear(text, FirstOccurrence(text, job_titles[k]), 100)
     /\ ~NegativeNear(text, FirstOccurrence(text, job_titles[k]), 100)}

\* C24: a full pass creates no Experience row when no job title qualifies,
\* and otherwise exactly one, for the first title of job_titles that does
C24_OneExperienceRow ==
  [][(Pass /\ last'.path = "passed") =>
       LET created == Added(experience, experience')
           first == CHOOSE k \in Qualifying(Doc) : \A j \in Qualifying(Doc) : k <= j
       IN /\ Len(created) <= 1
          /\ Qualifying(Doc) = {} => created = <<>>
          /\ Qualifying(Doc) # {} =>
                /\ Len(created) = 1
                /\ created[1].position = Title(job_titles[first])]_vars

\* two job titles of the text qualify and the first pass created one row,
\* for the one that comes first in job_titles and second in the text
C24_Witness ==
  /\ passes = 1
  /\ last.path = "passed"
  /\ Cardinality(Qualifying(Doc)) = 2
  /\ Len(experience) = 1
  /\ experience[1].position = "Investment Analyst"

\* C25: a full pass creates at most one Skill row for any skill name
C25_KeywordOnce ==
  [][(Pass /\ last'.path = "passed") =>
       LET created == Added(skills, skills')
       IN \A i, j \in DOMAIN created :
             created[i].skill_name = created[j].skill_name => i = j]_vars

\* the rows of before are the first rows of after
IsPrefix(before, after) ==
  Len(before) <= Len(after) /\ SubSeq(after, 1, Len(before)) = before

\* C26: no step deletes an Education, Experience or Skill row; a full pass
\* that follows a full pass on the same text adds as many Skill rows as a
\* pass on a fresh candidate creates (twice the rows after the second pass)
\* and stores skills and islamic_finance scores not below the earlier ones
C26_Accumulates ==
  [][/\ IsPrefix(education, education')
     /\ IsPrefix(experience, experience')
     /\ IsPrefix(skills, skills')
     /\ (Pass /\ last.path = "passed" /\ last'.path = "passed" /\ ~edited) =>
          /\ Len(Added(skills, skills')) = Len(extract_skills(<<>>, Doc))
          /\ passes = 1 => Len(skills') = 2 * Len(skills)
          /\ scores'[1].skills_score >= scores[1].skills_score
          /\ scores'[1].islamic_finance_score >= scores[1].islamic_finance_score]_vars

\* two passes on one text left the four Skill rows of one pass twice, none
\* of the domain category, and the skills score of eight rows (85, where
\* four rows score 55)
C26_Witness ==
  /\ passes = 2
  /\ last.path = "passed"
  /\ Len(skills) = 8
  /\ SubSeq(skills, 1, 4) = SubSeq(skills, 5, 8)
  /\ \A k \in DOMAIN skills : skills[k].category # "islamic_finance"
  /\ scores[1].skills_score = 85

\* C27: a pass that is gated (no text, under 50 characters, stuffing)
\* leaves the Education, Experience and Skill rows and the stored years as
\* they were
C27_GatedFrame ==
  [][(Pass /\ last'.path \in {"no_text", "too_short", "stuffing"}) =>
       /\ education' = education
       /\ experience' = experience
       /\ skills' = skills
       /\ years_experience' = years_experience]_vars

\* a gated second pass zeroed the Score row and the rows and the 7 years
\* of the first pass are still there
C27_Witness ==
  /\ passes = 2
  /\ last.path \in {"no_text", "too_short", "stuffing"}
  /\ education # <<>>
  /\ years_experience = 7
  /\ scores[1].total_score = 0

\* the phrases of all_skills that are in the text
SkillHits(text) == {k \in DOMAIN all_skills : In(all_skills[k], text)}

CertInText(text) == Range(ISLAMIC_FINANCE_CERTS) \cap text.sub # {}

\* C29: the Education rows a full pass creates from degree matches all carry
\* the flag "a certification keyword is in the text"; the placeholder never
\* carries it, so on a fresh candidate without a surviving degree match the
\* education score is 0 and the islamic_finance score has no 40-point part
C29_CertFlag ==
  [][(Pass /\ last'.path = "passed") =>
       LET created == Added(education, education')
       IN /\ \A k \in DOMAIN created :
                created[k].has_islamic_finance_cert
                  = (created[k].degree # "Not specified" /\ CertInText(Doc))
          /\ DegreeSurvives(Doc) => NotSpecified \notin Range(created)
          /\ (~DegreeSurvives(Doc) /\ education = <<>>) =>
                /\ scores'[1].education_score = 0
                /\ scores'[1].islamic_finance_score =
                     Min(100, (IF Count(experience', LAMBDA r : r.is_islamic_finance) > 0
                               THEN 30 ELSE 0)
                              + Min(20, 5 * Count(skills', LAMBDA r : r.category = "islamic_finance"))
                              + Min(10, 2 * Cardinality(ValidKeywords(Doc))))]_vars

\* the text has a certification keyword and a degree match that is negated:
\* the first pass left the unflagged placeholder and an education score of 0
C29_Witness ==
  /\ passes = 1
  /\ last.path = "passed"
  /\ CertInText(Doc)
  /\ Doc.deg # <<>>
  /\ education = <<NotSpecified>>
  /\ scores[1].education_score = 0
  /\ scores[1].islamic_finance_score < 40

\* the stored forms of the abbreviated degree tokens
Abbreviated ==
  {"PH.D", "PH.D.", "M.SC", "M.S", "M.S.", "MA", "M.A", "M.A.",
   "B.SC", "B.S", "B.S.", "BA", "B.A", "B.A.", "BBA"}

\* the stored forms of the tokens that are keys of the degree-score table
Spelled == {"PHD", "DOCTORATE", "MASTER", "MBA", "BACHELOR", "DIPLOMA"}

\* C30: a single Education row with an abbreviated degree has a bucket score
\* of 0 (the education score is the certification bonus alone); a row has a
\* bucket score above 0 only for phd, doctorate, master, mba, bachelor, diploma
C30_AbbreviationsScoreZero ==
  (last.path = "scored" /\ Len(education) = 1) =>
    LET degree == education[1].degree
        bonus == IF education[1].has_islamic_finance_cert THEN 20 ELSE 0
    IN /\ degree \in Abbreviated => scores[1].education_score = bonus
       /\ scores[1].education_score > bonus <=> degree \in Spelled

\* a single unflagged BBA row has been scored 0
C30_Witness ==
  /\ last.path = "scored"
  /\ Len(education) = 1
  /\ education[1].degree = "BBA"
  /\ ~education[1].has_islamic_finance_cert
  /\ scores[1].education_score = 0

====
